---- MODULE Spec2Model ----
(***************************************************************************)
(* Patents, the persons who hold them, ownership links and tax-number      *)
(* filters: the relational store of app_back and the read operations       *)
(* (listings, statistics, top-5 folding) computed over it.                 *)
(***************************************************************************)
EXTENDS Integers, Sequences, FiniteSets, TLC

VARIABLES
    patents,      \* rows of table patent
    persons,      \* rows of table person
    ownerships,   \* rows of table ownership
    filters,      \* rows of table filtertaxnumber
    all_data,     \* rows handed to get_top_5_and_others
    call,         \* the get_stats call in progress: its position, what it has read
    cache,        \* the entries of the in-memory cache of GET /patents/stats
    now,          \* the clock the cache's timers run on
    evaluations,  \* history: the get_stats results computed in the last cache_ttl
    written_at,   \* history: the clock reading of the last committed write
    resp          \* the last operation and what it returned

\* The cache, its clock and the history of what was computed for it.
cache_vars == <<cache, now, evaluations>>

vars == <<patents, persons, ownerships, filters, all_data, call, cache_vars,
          written_at, resp>>

-----------------------------------------------------------------------------
(* Bounds of the model *)

MaxPatents == 2
MaxPersons == 2
MaxOwnerships == 2
MaxFilterRows == 2
MaxPage == 2
MaxPageSize == 2
MaxLen == 7
MaxCount == 2

-----------------------------------------------------------------------------
(* Inputs: the rows the write operations may be called with *)

\* PatentBase: the fields of a patent the queries read.
Pat(k, r, c, a, act, sub) ==
    [kind |-> k, reg_number |-> r, country_code |-> c, author_count |-> a,
     actual |-> act, subcategory |-> sub]

PatentPool ==
    { Pat(1, 101, "RU", 2, TRUE,  "A01"),
      Pat(1, 101, "RU", 5, FALSE, "A01"),
      Pat(2, 102, "RU", 0, TRUE,  "B02"),
      Pat(3, 103, "US", 6, TRUE,  "A01"),
      Pat(1, 104, "US", 1, FALSE, "B02") }

\* PersonBase: the fields of a person the queries read (support_type is Optional).
Per(t, k, cat, opf, ved, reg, u, sup) ==
    [tax_number |-> t, full_name |-> t, kind |-> k, category |-> cat,
     okopf |-> opf, okvad |-> ved, region |-> reg, uk |-> u,
     support_type |-> sup]

PersonPool ==
    { Per("t1", 1, "SME", "12300", "62.01", "g. Moskva", 1, {"grant"}),
      Per("t2", 2, "IP",  "50102", "72.19", "Tula",      0, {}) }

TaxNumbers == {p.tax_number : p \in PersonPool}

FilterIds == {4}

\* Optional[T]: {} is None, {x} is the value x.
Optional(S) == {{}} \cup {{x} : x \in S}

PatentKey(p) == <<p.kind, p.reg_number>>

-----------------------------------------------------------------------------
(* The store *)

Own(t, k, r) == [person_tax_number |-> t, patent_kind |-> k, patent_reg_number |-> r]

FilterRow(f, t) == [filter_id |-> f, tax_number |-> t]

NoResp == [op |-> "none"]

\* No get_stats call is in progress.
NoCall == [pc |-> 0]

Init ==
    /\ patents = {}
    /\ persons = {}
    /\ ownerships = {}
    /\ filters = {}
    /\ all_data = <<>>
    /\ call = NoCall
    /\ cache = {}
    /\ now = 0
    /\ evaluations = {}
    /\ written_at = 0
    /\ resp = NoResp

PatentExists(k, r) == \E p \in patents : p.kind = k /\ p.reg_number = r

PersonExists(t) == \E q \in persons : q.tax_number = t

\* POST /patents: insert a row; the primary key (kind, reg_number) is unique.
create_patent(p) ==
    /\ Cardinality(patents) < MaxPatents
    /\ ~PatentExists(p.kind, p.reg_number)
    /\ patents' = patents \cup {p}
    /\ resp' = [op |-> "create_patent"]
    /\ UNCHANGED <<persons, ownerships, filters, all_data, call, cache_vars>>
    /\ written_at' = now

\* PATCH /patents/{kind}/{reg_number}: the row must exist; its fields are replaced.
update_patent(k, r, obj_in) ==
    /\ PatentExists(k, r)
    /\ obj_in.kind = k /\ obj_in.reg_number = r
    /\ patents' = {p \in patents : PatentKey(p) # <<k, r>>} \cup {obj_in}
    /\ resp' = [op |-> "update_patent"]
    /\ UNCHANGED <<persons, ownerships, filters, all_data, call, cache_vars>>
    /\ written_at' = now

\* DELETE /patents/{kind}/{reg_number}: the row and its ownership rows go in one commit.
delete_patent(k, r) ==
    /\ PatentExists(k, r)
    /\ LET gone == {o \in ownerships : o.patent_kind = k /\ o.patent_reg_number = r}
       IN /\ patents' = {p \in patents : PatentKey(p) # <<k, r>>}
          /\ ownerships' = ownerships \ gone
          /\ resp' = [op |-> "delete_patent", kind |-> k,
                      reg_number |-> r, cascade |-> gone]
    /\ UNCHANGED <<persons, filters, all_data, call, cache_vars>>
    /\ written_at' = now

\* POST /persons: insert a row; tax_number is the primary key.
create_person(q) ==
    /\ Cardinality(persons) < MaxPersons
    /\ ~PersonExists(q.tax_number)
    /\ persons' = persons \cup {q}
    /\ resp' = [op |-> "create_person"]
    /\ UNCHANGED <<patents, ownerships, filters, all_data, call, cache_vars>>
    /\ written_at' = now

\* PATCH /persons/{tax_number}: the row must exist; its fields are replaced. A new
\* tax_number is refused by the foreign key while ownership rows reference the old one.
update_person(t, obj_in) ==
    /\ PersonExists(t)
    /\ obj_in.tax_number # t =>
          /\ ~PersonExists(obj_in.tax_number)
          /\ \A o \in ownerships : o.person_tax_number # t
    /\ persons' = {q \in persons : q.tax_number # t} \cup {obj_in}
    /\ resp' = [op |-> "update_person"]
    /\ UNCHANGED <<patents, ownerships, filters, all_data, call, cache_vars>>
    /\ written_at' = now

\* DELETE /persons/{tax_number} without the delete-orphan cascade.
delete_person_keeps_ownerships(t) ==
    /\ PersonExists(t)
    /\ persons' = {q \in persons : q.tax_number # t}
    /\ resp' = [op |-> "delete_person", tax_number |-> t, cascade |-> {}]
    /\ UNCHANGED <<patents, ownerships, filters, all_data, call, cache_vars>>
    /\ written_at' = now

\* DELETE /persons/{tax_number}: Person.ownerships has cascade="all, delete-orphan",
\* so session.delete(person) deletes the person's ownership rows in the same commit.
delete_person(t) ==
    /\ PersonExists(t)
    /\ LET gone == {o \in ownerships : o.person_tax_number = t}
       IN /\ persons' = {q \in persons : q.tax_number # t}
          /\ ownerships' = ownerships \ gone
          /\ resp' = [op |-> "delete_person", tax_number |-> t,
                      cascade |-> gone]
    /\ UNCHANGED <<patents, filters, all_data, call, cache_vars>>
    /\ written_at' = now

\* An ownership row is written only for an existing patent and person (foreign keys).
create_ownership(t, k, r) ==
    /\ Cardinality(ownerships) < MaxOwnerships
    /\ PersonExists(t)
    /\ PatentExists(k, r)
    /\ Own(t, k, r) \notin ownerships
    /\ ownerships' = ownerships \cup {Own(t, k, r)}
    /\ resp' = [op |-> "create_ownership"]
    /\ UNCHANGED <<patents, persons, filters, all_data, call, cache_vars>>
    /\ written_at' = now

\* An uploaded tax number is stored under a filter id; it need not be a person's.
upload_filter_row(f, t) ==
    /\ Cardinality(filters) < MaxFilterRows
    /\ FilterRow(f, t) \notin filters
    /\ filters' = filters \cup {FilterRow(f, t)}
    /\ resp' = [op |-> "upload_filter"]
    /\ UNCHANGED <<patents, persons, ownerships, all_data, call, cache_vars>>
    /\ written_at' = now

-----------------------------------------------------------------------------
(* Patent statistics: CRUDPatent.get_stats *)

\* Patent JOIN Ownership on the composite foreign key: rows <<patent, ownership>>.
JoinOwnership(P) ==
    {row \in P \X ownerships :
        /\ row[2].patent_kind = row[1].kind
        /\ row[2].patent_reg_number = row[1].reg_number}

\* ... JOIN FilterTaxNumber ON person_tax_number = tax_number WHERE filter_id = f:
\* rows <<patent, ownership, filter row>>.
JoinFilter(rows, filter_id) ==
    LET matched == {x \in rows \X filters :
                       /\ x[1][2].person_tax_number = x[2].tax_number
                       /\ x[2].filter_id \in filter_id}
    IN  {<<x[1][1], x[1][2], x[2]>> : x \in matched}

\* The rows a count over Patent sees: every patent, or with a filter id the rows
\* of Patent JOIN Ownership JOIN FilterTaxNumber.
StatRows(P, filter_id) ==
    IF filter_id = {} THEN {<<p>> : p \in P}
    ELSE JoinFilter(JoinOwnership(P), filter_id)

\* The rows of the "with holders" counts: Patent JOIN Ownership, narrowed by the filter.
HolderRows(P, filter_id) ==
    IF filter_id = {} THEN JoinOwnership(P)
    ELSE JoinFilter(JoinOwnership(P), filter_id)

RuPatents == {p \in patents : p.country_code = "RU"}

total_patents(filter_id) == Cardinality(StatRows(patents, filter_id))

total_ru_patents(filter_id) == Cardinality(StatRows(RuPatents, filter_id))

\* total_with_holders as count(*) over the join: one per ownership row.
total_with_holders_rows(filter_id) ==
    Cardinality(HolderRows(patents, filter_id))

\* count(distinct(kind, reg_number))
total_with_holders(filter_id) ==
    Cardinality({PatentKey(row[1]) : row \in HolderRows(patents, filter_id)})

total_ru_with_holders(filter_id) ==
    Cardinality({PatentKey(row[1]) : row \in HolderRows(RuPatents, filter_id)})

\* int(100 * a / b): the percentage cut off instead of rounded.
percent_floor(a, b) == (100 * a) \div b

\* int(round(100 * a / b)) for b > 0: Python rounds a float half to even.
percent(a, b) ==
    LET q == (100 * a) \div b
        r == (100 * a) % b
    IN  IF 2 * r < b THEN q
        ELSE IF 2 * r > b THEN q + 1
        ELSE IF q % 2 = 0 THEN q ELSE q + 1

\* The CASE of by_author_count with "<= 5" read as "< 5".
author_count_group_lt5(p) ==
    IF p.author_count = 0 THEN "0"
    ELSE IF p.author_count = 1 THEN "1"
    ELSE IF p.author_count < 5 THEN "2-5"
    ELSE "5+"

\* case((author_count == 0, "0"), (author_count == 1, "1"),
\*      (author_count <= 5, "2-5"), else_="5+"); the label "2-5" is written
\* with an en dash in the source.
author_count_group(p) ==
    IF p.author_count = 0 THEN "0"
    ELSE IF p.author_count = 1 THEN "1"
    ELSE IF p.author_count <= 5 THEN "2-5"
    ELSE "5+"

\* SELECT group, count(*) ... GROUP BY group, read into a dict: only the groups
\* that have rows are keys.
by_author_count(filter_id) ==
    LET rows == StatRows(patents, filter_id)
    IN  [g \in {author_count_group(row[1]) : row \in rows} |->
            Cardinality({row \in rows : author_count_group(row[1]) = g})]

\* by_patent_kind as count(distinct(kind, reg_number)) for each kind.
by_patent_kind_distinct(filter_id) ==
    LET rows == StatRows(patents, filter_id)
    IN  [k \in {row[1].kind : row \in rows} |->
            Cardinality({PatentKey(row[1]) : row \in {x \in rows : x[1].kind = k}})]

\* SELECT kind, count(*) ... GROUP BY kind, read into a dict.
by_patent_kind(filter_id) ==
    LET rows == StatRows(patents, filter_id)
    IN  [k \in {row[1].kind : row \in rows} |->
            Cardinality({row \in rows : row[1].kind = k})]

\* get_stats: the six counts, then the two percentages (a zero denominator
\* raises ZeroDivisionError before anything is returned), then the two dicts.
get_stats(filter_id) ==
    IF total_patents(filter_id) = 0 \/ total_ru_patents(filter_id) = 0
    THEN [raised |-> "ZeroDivisionError"]
    ELSE [raised |-> "",
          total_patents |-> total_patents(filter_id),
          total_ru_patents |-> total_ru_patents(filter_id),
          total_with_holders |-> total_with_holders(filter_id),
          total_ru_with_holders |-> total_ru_with_holders(filter_id),
          with_holders_percent |->
              percent(total_with_holders(filter_id), total_patents(filter_id)),
          ru_with_holders_percent |->
              percent(total_ru_with_holders(filter_id), total_ru_patents(filter_id)),
          by_author_count |-> by_author_count(filter_id),
          by_patent_kind |-> by_patent_kind(filter_id)]

\* One call of patent_crud.get_stats(session, filter_id).
call_get_stats(filter_id) ==
    /\ resp' = [op |-> "get_stats", filter_id |-> filter_id, body |-> get_stats(filter_id)]
    /\ UNCHANGED <<patents, persons, ownerships, filters, all_data, call, cache_vars, written_at>>

-----------------------------------------------------------------------------
(* Patent listings: CRUDPatent.get_patents_list, get_patents_list_with_filter *)

\* The orders a query may return a set of rows in.
Perms(S) ==
    {s \in [1..Cardinality(S) -> S] :
        \A i, j \in 1..Cardinality(S) : i # j => s[i] # s[j]}

\* ORDER BY actual DESC: no row not in force before a row in force.
ActualDesc(s) ==
    \A i, j \in 1..Len(s) : i < j => ~(~s[i].actual /\ s[j].actual)

\* OFFSET skip LIMIT pagesize
Window(s, skip, pagesize) ==
    IF skip >= Len(s) THEN <<>>
    ELSE SubSeq(s, skip + 1, IF skip + pagesize < Len(s) THEN skip + pagesize ELSE Len(s))

\* Patent.ownerships with Ownership.person loaded: the holders of one patent.
PatentHolders(p) ==
    {[tax_number |-> q.tax_number, full_name |-> q.full_name] :
        q \in {x \in persons :
                  \E o \in ownerships :
                      /\ o.patent_kind = p.kind
                      /\ o.patent_reg_number = p.reg_number
                      /\ o.person_tax_number = x.tax_number}}

\* {**patent.__dict__, "patent_holders": patent_holders}
Item(p) ==
    [kind |-> p.kind, reg_number |-> p.reg_number, country_code |-> p.country_code,
     author_count |-> p.author_count, actual |-> p.actual,
     subcategory |-> p.subcategory, patent_holders |-> PatentHolders(p)]

Items(s) == [i \in 1..Len(s) |-> Item(s[i])]

\* The listing statement with inner joins: a patent without an Ownership row
\* has no row.
Matching_inner_join(kind, actual) ==
    {p \in patents :
        /\ kind # {} => p.kind \in kind
        /\ actual # {} => p.actual \in actual
        /\ \E o \in ownerships :
               o.patent_kind = p.kind /\ o.patent_reg_number = p.reg_number}

\* WHERE Patent.kind == kind (if given) AND Patent.actual == actual (if given),
\* GROUP BY the patent key: one row per matching patent.
Matching(kind, actual) ==
    {p \in patents :
        /\ kind # {} => p.kind \in kind
        /\ actual # {} => p.actual \in actual}

\* What the store may answer to the listing statement before OFFSET/LIMIT.
ListingRows(kind, actual) ==
    {s \in Perms(Matching(kind, actual)) : ActualDesc(s)}

\* get_patents_list with the total taken from the returned page.
get_patents_list_total_of_page(rows, page, pagesize) ==
    [raised |-> "",
     total |-> Len(Window(rows, (page - 1) * pagesize, pagesize)),
     items |-> Items(Window(rows, (page - 1) * pagesize, pagesize))]

\* The store (PostgreSQL: get_patent uses string_agg and array_length) refuses
\* a statement whose OFFSET or LIMIT is negative when it executes it.
RefusedWindow(skip, pagesize) == skip < 0 \/ pagesize < 0

\* get_patents_list: rows is the store's answer to the statement without its
\* window; total is select(func.count()).select_from(Patent). The arguments
\* go into OFFSET and LIMIT as they are.
get_patents_list(rows, page, pagesize) ==
    LET skip == (page - 1) * pagesize
    IN  IF RefusedWindow(skip, pagesize) THEN [raised |-> "DBAPIError"]
        ELSE [raised |-> "",
              total |-> Cardinality(patents),
              items |-> Items(Window(rows, skip, pagesize))]

\* select(FilterTaxNumber.tax_number).where(FilterTaxNumber.filter_id == filter_id)
tax_numbers(f) == {fr.tax_number : fr \in {x \in filters : x.filter_id = f}}

\* Patent OUTER JOIN Ownership OUTER JOIN Person WHERE Person.tax_number IN
\* tax_numbers, GROUP BY the patent key.
FilteredMatching(f) ==
    {p \in patents :
        \E o \in ownerships, q \in persons :
            /\ o.patent_kind = p.kind
            /\ o.patent_reg_number = p.reg_number
            /\ q.tax_number = o.person_tax_number
            /\ q.tax_number \in tax_numbers(f)}

\* The filtered statement has no ORDER BY: any order.
FilteredListingRows(f) == Perms(FilteredMatching(f))

\* get_patents_list_with_filter: total counts the rows of Patent OUTER JOIN
\* Ownership WHERE Ownership.person_tax_number IN tax_numbers.
get_patents_list_with_filter(rows, page, pagesize, f) ==
    LET skip == (page - 1) * pagesize
    IN  IF RefusedWindow(skip, pagesize) THEN [raised |-> "DBAPIError"]
        ELSE [raised |-> "",
              total |-> Cardinality({row \in JoinOwnership(patents) :
                                        row[2].person_tax_number \in tax_numbers(f)}),
              items |-> Items(Window(rows, skip, pagesize))]

\* Python truth value of Optional[int]: None and 0 are false.
Truthy(filter_id) == filter_id # {} /\ filter_id # {0}

\* What GET /patents may answer: one body for each order the store may return.
list_patents_bodies(page, pagesize, filter_id, kind, actual) ==
    IF Truthy(filter_id)
    THEN UNION {{get_patents_list_with_filter(rows, page, pagesize, f) :
                    rows \in FilteredListingRows(f)} : f \in filter_id}
    ELSE {get_patents_list(rows, page, pagesize) : rows \in ListingRows(kind, actual)}

\* GET /patents
list_patents(page, pagesize, filter_id, kind, actual) ==
    /\ \E body \in list_patents_bodies(page, pagesize, filter_id, kind, actual) :
           resp' = [op |-> "list_patents", page |-> page, pagesize |-> pagesize,
                    filter_id |-> filter_id, kind |-> kind, actual |-> actual,
                    body |-> body]
    /\ UNCHANGED <<patents, persons, ownerships, filters, all_data, call, cache_vars, written_at>>

-----------------------------------------------------------------------------
(* Top-5-and-others: get_top_5_and_others of CRUDPerson.get_patents_stats *)

\* The name of the remainder entry (a Cyrillic word in the source).
OthersName == "Ostalnye"

\* sum(count for _, count in rows)
SumCounts(rows) ==
    LET RECURSIVE sum(_)
        sum(i) == IF i > Len(rows) THEN 0 ELSE rows[i][2] + sum(i + 1)
    IN  sum(1)

\* get_top_5_and_others appending the remainder whenever it is >= 0.
get_top_5_and_others_ge0(rows) ==
    IF rows = <<>> THEN <<>>
    ELSE LET top_5 == SubSeq(rows, 1, IF Len(rows) < 5 THEN Len(rows) ELSE 5)
             others_sum == SumCounts(SubSeq(rows, 6, Len(rows)))
             result_list == [i \in 1..Len(top_5) |->
                                [name |-> top_5[i][1], count |-> top_5[i][2]]]
         IN  IF others_sum >= 0
             THEN Append(result_list, [name |-> OthersName, count |-> others_sum])
             ELSE result_list

\* get_top_5_and_others on the rows <<name, count>> of its query.
get_top_5_and_others(rows) ==
    IF rows = <<>> THEN <<>>
    ELSE LET top_5 == SubSeq(rows, 1, IF Len(rows) < 5 THEN Len(rows) ELSE 5)
             others_sum == SumCounts(SubSeq(rows, 6, Len(rows)))
             result_list == [i \in 1..Len(top_5) |->
                                [name |-> top_5[i][1], count |-> top_5[i][2]]]
         IN  IF others_sum > 0
             THEN Append(result_list, [name |-> OthersName, count |-> others_sum])
             ELSE result_list

\* The names of the rows handed to the fold, in row order.
NamePool == <<"A", "B", "C", "D", "E", "F", "G", "H", "I", "J">>

\* Every sequence of at most MaxLen rows whose counts never increase.
FoldInputs ==
    UNION {{[i \in 1..n |-> <<NamePool[i], c[i]>>] :
               c \in {d \in [1..n -> 0..MaxCount] :
                         \A i \in 1..n : i < n => d[i] >= d[i + 1]}} :
           n \in 0..MaxLen}

InitFold ==
    /\ patents = {}
    /\ persons = {}
    /\ ownerships = {}
    /\ filters = {}
    /\ all_data \in FoldInputs
    /\ call = NoCall
    /\ cache = {}
    /\ now = 0
    /\ evaluations = {}
    /\ written_at = 0
    /\ resp = NoResp

Fold ==
    /\ resp' = [op |-> "get_top_5_and_others", body |-> get_top_5_and_others(all_data)]
    /\ UNCHANGED <<patents, persons, ownerships, filters, all_data, call, cache_vars, written_at>>

NextFold == Fold

SpecFold == InitFold /\ [][NextFold]_vars

-----------------------------------------------------------------------------
(* The store under its operations *)

CreatePatent == \E p \in PatentPool : create_patent(p)

UpdatePatent == \E p \in PatentPool : update_patent(p.kind, p.reg_number, p)

DeletePatent == \E p \in patents : delete_patent(p.kind, p.reg_number)

CreatePerson == \E q \in PersonPool : create_person(q)

UpdatePerson == \E t \in TaxNumbers, q \in PersonPool : update_person(t, q)

DeletePerson == \E t \in TaxNumbers : delete_person(t)

CreateOwnership ==
    \E t \in TaxNumbers, p \in PatentPool : create_ownership(t, p.kind, p.reg_number)

UploadFilter == \E f \in FilterIds, t \in TaxNumbers : upload_filter_row(f, t)

GetStats == \E filter_id \in Optional(FilterIds) : call_get_stats(filter_id)

\* The query arguments <<filter_id, kind, actual>> GET /patents is called with.
ListArgs ==
    { <<{}, {}, {}>>, <<{}, {1}, {}>>, <<{}, {}, {TRUE}>> } \cup
    { <<{f}, {}, {}>> : f \in FilterIds }

ListPatents ==
    \E page \in 1..MaxPage, pagesize \in 1..MaxPageSize, args \in ListArgs :
        list_patents(page, pagesize, args[1], args[2], args[3])

Next ==
    \/ CreatePatent
    \/ UpdatePatent
    \/ DeletePatent
    \/ CreatePerson
    \/ UpdatePerson
    \/ DeletePerson
    \/ CreateOwnership
    \/ UploadFilter
    \/ GetStats
    \/ ListPatents

Spec == Init /\ [][Next]_vars

-----------------------------------------------------------------------------
(* Person statistics: CRUDPerson.get_all_stats, get_msk_stats *)

\* The region values of the pools that contain the Moscow substring, whatever
\* the case of their letters.
MoscowRegions == {"g. Moskva", "MOSKVA"}

\* Person.region.ilike('%moskva%') (the pattern is Cyrillic in the source).
ilike_moskva(region) == region \in MoscowRegions

\* The rows a person statement sees: every person of Q, or with a filter id the
\* rows <<person, filter row>> of Person JOIN FilterTaxNumber on tax_number
\* WHERE filter_id = f.
PersonRows(Q, filter_id) ==
    IF filter_id = {} THEN {<<q>> : q \in Q}
    ELSE {row \in Q \X filters :
             /\ row[1].tax_number = row[2].tax_number
             /\ row[2].filter_id \in filter_id}

\* SELECT Person.kind, count(*) ... GROUP BY Person.kind, read into a dict.
by_kind(rows) ==
    [k \in {row[1].kind : row \in rows} |->
        Cardinality({row \in rows : row[1].kind = k})]

\* SELECT Person.category, count(*) ... GROUP BY Person.category, read into a dict.
by_category(rows) ==
    [c \in {row[1].category : row \in rows} |->
        Cardinality({row \in rows : row[1].category = c})]

\* get_all_stats: three statements, each joined to the filter when one is given.
get_all_stats(filter_id) ==
    LET rows == PersonRows(persons, filter_id)
    IN  [raised |-> "",
         total_persons |-> Cardinality(rows),
         by_kind |-> by_kind(rows),
         by_category |-> by_category(rows)]

\* One call of person_crud.get_all_stats(session, filter_id).
call_get_all_stats(filter_id) ==
    /\ resp' = [op |-> "get_all_stats", filter_id |-> filter_id,
                body |-> get_all_stats(filter_id)]
    /\ UNCHANGED <<patents, persons, ownerships, filters, all_data, call, cache_vars, written_at>>

MoscowPersons == {q \in persons : ilike_moskva(q.region)}

\* round((a / b) * 100, 2) for b > 0, in hundredths of a percent (5000 is 50.0).
round2_percent(a, b) ==
    LET q == (10000 * a) \div b
        r == (10000 * a) % b
    IN  IF 2 * r < b THEN q
        ELSE IF 2 * r > b THEN q + 1
        ELSE IF q % 2 = 0 THEN q ELSE q + 1

\* get_msk_stats: total, by_kind, by_category and the cluster statement are
\* joined to the filter when one is given; the support_type statement is not.
\* The cluster percentage is 0 unless cluster_count is non-zero and total_count
\* > 0; the support_type percentage divides by total_count as it is.
get_msk_stats(filter_id) ==
    LET rows == PersonRows(MoscowPersons, filter_id)
        cluster_count == Cardinality({row \in rows : row[1].uk = 1})
        cluster_total == Cardinality(rows)
        support_rows == {<<q>> : q \in MoscowPersons}
        count == Cardinality({row \in support_rows : row[1].support_type # {}})
        total_count == Cardinality(support_rows)
    IN  IF total_count = 0 THEN [raised |-> "ZeroDivisionError"]
        ELSE [raised |-> "",
              total_persons |-> Cardinality(rows),
              by_kind |-> by_kind(rows),
              by_category |-> by_category(rows),
              moscow_cluster_percentage |->
                  IF cluster_count # 0 /\ cluster_total > 0
                  THEN round2_percent(cluster_count, cluster_total)
                  ELSE 0,
              moscow_support_type_percentage |-> round2_percent(count, total_count)]

\* get_msk_stats that deletes the rows of the filter it was given.
call_get_msk_stats_consumes_filter(filter_id) ==
    /\ resp' = [op |-> "get_msk_stats", filter_id |-> filter_id,
                body |-> get_msk_stats(filter_id)]
    /\ filters' = {fr \in filters : fr.filter_id \notin filter_id}
    /\ UNCHANGED <<patents, persons, ownerships, all_data, call, cache_vars, written_at>>

\* One call of person_crud.get_msk_stats(session, filter_id).
call_get_msk_stats(filter_id) ==
    /\ resp' = [op |-> "get_msk_stats", filter_id |-> filter_id,
                body |-> get_msk_stats(filter_id)]
    /\ UNCHANGED <<patents, persons, ownerships, filters, all_data, call, cache_vars, written_at>>

\* The persons the person statistics are checked on: the pool and a second
\* Moscow person, outside the cluster and without a support type.
MskPersonPool ==
    PersonPool \cup { Per("t3", 1, "SME", "12300", "62.01", "MOSKVA", 0, {}) }

MskTaxNumbers == {q.tax_number : q \in MskPersonPool}

CreateMskPerson == \E q \in MskPersonPool : create_person(q)

DeleteMskPerson == \E q \in persons : delete_person(q.tax_number)

UploadMskFilter == \E f \in FilterIds, t \in MskTaxNumbers : upload_filter_row(f, t)

GetAllStats == \E filter_id \in Optional(FilterIds) : call_get_all_stats(filter_id)

GetMskStats == \E filter_id \in Optional(FilterIds) : call_get_msk_stats(filter_id)

NextPerson ==
    \/ CreateMskPerson
    \/ DeleteMskPerson
    \/ UploadMskFilter
    \/ GetAllStats
    \/ GetMskStats

SpecPerson == Init /\ [][NextPerson]_vars

-----------------------------------------------------------------------------
(* Patents by person category: CRUDPerson.get_patents_stats *)

\* Person JOIN Ownership on tax_number: rows <<person, ownership>>.
PersonOwnership ==
    {row \in persons \X ownerships : row[1].tax_number = row[2].person_tax_number}

\* ORDER BY count DESC: no smaller count before a larger one.
CountDesc(s) ==
    \A i, j \in 1..Len(s) : i < j => s[i][2] >= s[j][2]

\* SELECT Person.okopf, count(...) ... GROUP BY Person.okopf ORDER BY count DESC:
\* the orders the store may return the rows <<okopf, count>> in.
okopf_rows ==
    LET groups == {<<g, Cardinality({row \in PersonOwnership : row[1].okopf = g})>> :
                      g \in {row[1].okopf : row \in PersonOwnership}}
    IN  {s \in Perms(groups) : CountDesc(s)}

\* The same statement grouped by Person.okvad.
okvad_rows ==
    LET groups == {<<g, Cardinality({row \in PersonOwnership : row[1].okvad = g})>> :
                      g \in {row[1].okvad : row \in PersonOwnership}}
    IN  {s \in Perms(groups) : CountDesc(s)}

\* SELECT Patent.subcategory, count(...) FROM Patent JOIN Ownership WHERE
\* Patent.kind IN (1, 2) GROUP BY Patent.subcategory ORDER BY count DESC.
mpk_rows ==
    LET joined == JoinOwnership({p \in patents : p.kind \in {1, 2}})
        groups == {<<g, Cardinality({row \in joined : row[1].subcategory = g})>> :
                      g \in {row[1].subcategory : row \in joined}}
    IN  {s \in Perms(groups) : CountDesc(s)}

\* What get_patents_stats may return: one record for each order of tied rows.
get_patents_stats_bodies ==
    {[raised |-> "",
      okopf_stats |-> get_top_5_and_others(a),
      okvad_stats |-> get_top_5_and_others(b),
      mpk_stats |-> get_top_5_and_others(c)] :
        a \in okopf_rows, b \in okvad_rows, c \in mpk_rows}

\* One call of person_crud.get_patents_stats(session).
call_get_patents_stats ==
    /\ \E body \in get_patents_stats_bodies :
           resp' = [op |-> "get_patents_stats", body |-> body]
    /\ UNCHANGED <<patents, persons, ownerships, filters, all_data, call, cache_vars, written_at>>

-----------------------------------------------------------------------------
(* Single entities and failures: get_patent, get_person, the exception handlers *)

\* get_patent: the statement returns the row of the patent with the key, and
\* result.one() raises NoResultFound when there is none.
get_patent(k, r) ==
    IF ~PatentExists(k, r) THEN [raised |-> "NoResultFound"]
    ELSE [raised |-> "",
          patent |-> Item(CHOOSE p \in patents : PatentKey(p) = <<k, r>>)]

\* get_person: one_or_none() returns None when no row matches, and unpacking
\* None into person, patent_count raises TypeError.
get_person(t) ==
    IF ~PersonExists(t) THEN [raised |-> "TypeError"]
    ELSE LET keys == {<<o.patent_kind, o.patent_reg_number>> :
                         o \in {x \in ownerships : x.person_tax_number = t}}
         IN  [raised |-> "",
              person |-> CHOOSE q \in persons : q.tax_number = t,
              patents |-> keys,
              patent_count |-> Cardinality(keys)]

\* The response of the exception handler registered for the class of the
\* exception: OperationalError, DatabaseError, RequestValidationError, and
\* the handler of Exception for every other class.
exception_handler(raised) ==
    CASE raised = "" -> [status_code |-> 200, type |-> ""]
      [] raised = "OperationalError" ->
             [status_code |-> 500, type |-> "operational_error"]
      [] raised = "DatabaseError" ->
             [status_code |-> 500, type |-> "database_error"]
      [] raised = "RequestValidationError" ->
             [status_code |-> 422, type |-> "validation_error"]
      [] OTHER -> [status_code |-> 500, type |-> "internal_server_error"]

\* GET /patents/{patent_kind}/{patent_reg_number}
call_get_patent(k, r) ==
    /\ resp' = [op |-> "get_patent", kind |-> k, reg_number |-> r,
                body |-> get_patent(k, r),
                response |-> exception_handler(get_patent(k, r).raised)]
    /\ UNCHANGED <<patents, persons, ownerships, filters, all_data, call, cache_vars, written_at>>

\* GET /persons/{person_tax_number}
call_get_person(t) ==
    /\ resp' = [op |-> "get_person", tax_number |-> t,
                body |-> get_person(t),
                response |-> exception_handler(get_person(t).raised)]
    /\ UNCHANGED <<patents, persons, ownerships, filters, all_data, call, cache_vars, written_at>>

\* The statements get_stats executes, in order: total_patents, total_ru_patents,
\* total_with_holders, total_ru_with_holders, by_author_count, by_patent_kind.
NumStatements == 6

\* The statements get_stats executes before it divides.
NumCountStatements == 4

\* get_stats that executes a failed statement again and goes on.
get_stats_on_retry(filter_id, failing) == get_stats(filter_id)

\* get_stats on a store that fails to answer statement number failing (0: it
\* answers all): session.execute raises, and nothing in get_stats or in the
\* endpoint catches it.
get_stats_on(filter_id, failing) ==
    IF failing \in 1..NumCountStatements THEN [raised |-> "OperationalError"]
    ELSE IF get_stats(filter_id).raised # "" THEN get_stats(filter_id)
    ELSE IF failing \in (NumCountStatements + 1)..NumStatements
         THEN [raised |-> "OperationalError"]
    ELSE get_stats(filter_id)

\* One call of patent_crud.get_stats from its endpoint, with the response the
\* caller receives.
call_get_stats_on(filter_id, failing) ==
    /\ resp' = [op |-> "get_stats", filter_id |-> filter_id, failing |-> failing,
                body |-> get_stats_on(filter_id, failing),
                response |-> exception_handler(get_stats_on(filter_id, failing).raised)]
    /\ UNCHANGED <<patents, persons, ownerships, filters, all_data, call, cache_vars, written_at>>

-----------------------------------------------------------------------------
(* The read operations on any store, with the arguments a caller may send *)

\* A store the write operations can build: unique patent keys, ownership rows
\* between rows that exist.
InitCalls ==
    /\ patents \in {P \in SUBSET PatentPool :
                       /\ Cardinality(P) <= MaxPatents
                       /\ \A p, q \in P : PatentKey(p) = PatentKey(q) => p = q}
    /\ persons \in {Q \in SUBSET PersonPool : Cardinality(Q) <= MaxPersons}
    /\ ownerships \in
           {O \in SUBSET {Own(q.tax_number, p.kind, p.reg_number) :
                             q \in persons, p \in patents} :
               Cardinality(O) <= MaxOwnerships}
    /\ filters \in {F \in SUBSET {FilterRow(f, t) : f \in FilterIds, t \in TaxNumbers} :
                       Cardinality(F) <= MaxFilterRows}
    /\ all_data = <<>>
    /\ call = NoCall
    /\ cache = {}
    /\ now = 0
    /\ evaluations = {}
    /\ written_at = 0
    /\ resp = NoResp

\* The <<page, pagesize>> GET /patents is called with: int, not validated.
CallWindows == { <<1, 1>>, <<2, 1>>, <<0, 1>>, <<1, 0>>, <<1, -1>> }

\* The filter ids a caller may send: none, one that was never uploaded, an
\* uploaded one.
CallFilterIds == { {}, {0} } \cup {{f} : f \in FilterIds}

CallListPatents ==
    \E w \in CallWindows, filter_id \in CallFilterIds :
        list_patents(w[1], w[2], filter_id, {}, {})

CallGetStats ==
    \E filter_id \in Optional(FilterIds), failing \in 0..NumStatements :
        call_get_stats_on(filter_id, failing)

CallGetAllStats == \E filter_id \in CallFilterIds : call_get_all_stats(filter_id)

GetPatentsStats == call_get_patents_stats

GetPatent == \E p \in PatentPool : call_get_patent(p.kind, p.reg_number)

GetPerson == \E t \in TaxNumbers : call_get_person(t)

NextCalls ==
    \/ CallListPatents
    \/ CallGetStats
    \/ CallGetAllStats
    \/ GetMskStats
    \/ GetPatentsStats
    \/ GetPatent
    \/ GetPerson

SpecCalls == InitCalls /\ [][NextCalls]_vars

-----------------------------------------------------------------------------
(* Patent statistics on a store of three patents *)

\* The author counts of the three patents: one of each bucket but "1".
ScenarioAuthorCounts == {0, 2, 6}

\* The keys of the three patents P1, P2, P3.
ScenarioKeys == << <<1, 101>>, <<2, 102>>, <<3, 103>> >>

\* Three patents with the given country codes and author counts.
ThreePatents(c, a) ==
    {Pat(ScenarioKeys[i][1], ScenarioKeys[i][2], c[i], a[i], TRUE, "A01") : i \in 1..3}

\* Any ownership rows between the persons and the three patents.
ScenarioOwnerships ==
    SUBSET {Own(t, ScenarioKeys[i][1], ScenarioKeys[i][2]) : t \in TaxNumbers, i \in 1..3}

InitStats ==
    /\ \E c \in [1..3 -> {"RU", "US"}], a \in [1..3 -> ScenarioAuthorCounts] :
           patents = ThreePatents(c, a)
    /\ persons = PersonPool
    /\ ownerships \in ScenarioOwnerships
    /\ filters \in SUBSET {FilterRow(f, t) : f \in FilterIds, t \in TaxNumbers}
    /\ all_data = <<>>
    /\ call = NoCall
    /\ cache = {}
    /\ now = 0
    /\ evaluations = {}
    /\ written_at = 0
    /\ resp = NoResp

NextStats == GetStats

SpecStats == InitStats /\ [][NextStats]_vars

-----------------------------------------------------------------------------
(* get_stats statement by statement, with writers between its statements *)

\* What statement number k of get_stats returns on the store as it is.
StatementValue(k, filter_id) ==
    CASE k = 1 -> total_patents(filter_id)
      [] k = 2 -> total_ru_patents(filter_id)
      [] k = 3 -> total_with_holders(filter_id)
      [] k = 4 -> total_ru_with_holders(filter_id)
      [] k = 5 -> by_author_count(filter_id)
      [] k = 6 -> by_patent_kind(filter_id)

\* The isolation level of the session's transaction is set where the engine is
\* created, outside get_stats: each statement reads what is committed when it
\* starts (READ COMMITTED, the default of the store), or every statement reads
\* the snapshot of the first one (REPEATABLE READ).
IsolationLevels == {"READ COMMITTED", "REPEATABLE READ"}

\* patent_crud.get_stats(session, filter_id) is entered: stats = {}.
begin_get_stats(filter_id, isolation) ==
    /\ call.pc = 0
    /\ call' = [pc |-> 1, filter_id |-> filter_id, isolation |-> isolation,
                snapshot |-> <<>>, stats |-> <<>>]
    /\ UNCHANGED <<patents, persons, ownerships, filters, all_data, cache_vars,
                 written_at, resp>>

\* PatentStatsResponse(**stats) from the values read by the six statements.
StatsRecord(stats) ==
    [raised |-> "",
     total_patents |-> stats[1],
     total_ru_patents |-> stats[2],
     total_with_holders |-> stats[3],
     total_ru_with_holders |-> stats[4],
     with_holders_percent |-> percent(stats[3], stats[1]),
     ru_with_holders_percent |-> percent(stats[4], stats[2]),
     by_author_count |-> stats[5],
     by_patent_kind |-> stats[6]]

\* await session.execute(statement k) and what follows it up to the next await:
\* after the fourth statement the two divisions, after the sixth the return.
execute_statement(k) ==
    /\ call.pc = k
    /\ LET read == IF call.isolation = "REPEATABLE READ" /\ k > 1
                   THEN call.snapshot[k]
                   ELSE StatementValue(k, call.filter_id)
           stats == Append(call.stats, read)
           done(body) ==
               /\ resp' = [op |-> "get_stats", filter_id |-> call.filter_id,
                           isolation |-> call.isolation, body |-> body]
               /\ call' = NoCall
       IN  IF k = NumCountStatements /\ (stats[1] = 0 \/ stats[2] = 0)
           THEN done([raised |-> "ZeroDivisionError"])
           ELSE IF k = NumStatements
           THEN done(StatsRecord(stats))
           ELSE /\ call' = [call EXCEPT
                               !.pc = k + 1,
                               !.stats = stats,
                               !.snapshot =
                                   IF call.isolation = "REPEATABLE READ" /\ k = 1
                                   THEN [i \in 1..NumStatements |->
                                            StatementValue(i, call.filter_id)]
                                   ELSE @]
                /\ resp' = resp
    /\ UNCHANGED <<patents, persons, ownerships, filters, all_data, cache_vars,
                 written_at>>

BeginGetStats == \E isolation \in IsolationLevels : begin_get_stats({}, isolation)

ExecuteStatement == \E k \in 1..NumStatements : execute_statement(k)

NextSnapshot ==
    \/ CreatePatent
    \/ DeletePatent
    \/ CreatePerson
    \/ CreateOwnership
    \/ BeginGetStats
    \/ ExecuteStatement

SpecSnapshot == Init /\ [][NextSnapshot]_vars

-----------------------------------------------------------------------------
(* GET /patents with a filter id, a kind and an actual value together *)

\* The <<filter_id, kind, actual>> of a listing: each given or not.
ListingArgs == Optional(FilterIds) \X Optional({1}) \X Optional({TRUE})

ListWithArgs ==
    \E page \in 1..MaxPage, pagesize \in 1..MaxPageSize, args \in ListingArgs :
        list_patents(page, pagesize, args[1], args[2], args[3])

NextListing == ListWithArgs

SpecListing == InitCalls /\ [][NextListing]_vars

-----------------------------------------------------------------------------
(* GET /patents/stats behind @cached(ttl, Cache.MEMORY, key_builder) *)

\* settings.cache_ttl in ticks of the clock, and the last reading of the clock.
CacheTtl == 2
MaxTime == 4

\* The key maps every argument to the same entry.
key_builder_constant(filter_id) == <<"patents_stats", {}>>

\* key_builder: f"patents_stats:{kwargs.get('filter_id')}"
key_builder(filter_id) == <<"patents_stats", filter_id>>

\* The entries stored under a key: none or one.
cache_get(key) == {e \in cache : e.key = key}

\* One request GET /patents/stats?filter_id=...: the value under the key is
\* returned if there is one; otherwise get_stats runs, and what it returns is
\* stored under the key with the time it was set at. An exception leaves the
\* decorator before anything is stored.
cached_get_patents_stats(filter_id) ==
    LET key   == key_builder(filter_id)
        value == cache_get(key)
        stats == get_stats(filter_id)
    IN  /\ IF value # {}
           THEN /\ resp' = [op |-> "GET /patents/stats", filter_id |-> filter_id,
                            at |-> now, body |-> (CHOOSE e \in value : TRUE).value]
                /\ UNCHANGED <<cache, evaluations>>
           ELSE /\ resp' = [op |-> "GET /patents/stats", filter_id |-> filter_id,
                            at |-> now, body |-> stats]
                /\ IF stats.raised = ""
                   THEN /\ cache' = cache \cup
                               {[key |-> key, value |-> stats, set_at |-> now]}
                        /\ evaluations' = evaluations \cup
                               {[filter_id |-> filter_id, at |-> now, body |-> stats]}
                   ELSE UNCHANGED <<cache, evaluations>>
        /\ UNCHANGED <<patents, persons, ownerships, filters, all_data, call, now,
                       written_at>>

\* The timer of an entry fires cache_ttl after the entry was set, at some
\* moment of that tick of the clock, and deletes the entry.
expire(e) ==
    /\ e \in cache
    /\ e.set_at + CacheTtl <= now
    /\ cache' = cache \ {e}
    /\ UNCHANGED <<patents, persons, ownerships, filters, all_data, call, now,
                   evaluations, written_at, resp>>

\* The clock moves on once the timers due in this tick have fired.
tick ==
    /\ now < MaxTime
    /\ \A e \in cache : e.set_at + CacheTtl > now
    /\ now' = now + 1
    /\ evaluations' = {e \in evaluations : now + 1 - e.at <= CacheTtl}
    /\ UNCHANGED <<patents, persons, ownerships, filters, all_data, call, cache,
                   written_at, resp>>

\* The store the cached endpoint is read on: two Russian patents, the two
\* persons, the filter 4 with the tax number of the first person.
CachePatents == {p \in PatentPool : p.actual /\ p.country_code = "RU"}

InitCache ==
    /\ patents = {}
    /\ persons = PersonPool
    /\ ownerships = {}
    /\ filters = {FilterRow(f, "t1") : f \in FilterIds}
    /\ all_data = <<>>
    /\ call = NoCall
    /\ cache = {}
    /\ now = 0
    /\ evaluations = {}
    /\ written_at = 0
    /\ resp = NoResp

CacheCreatePatent == \E p \in CachePatents : create_patent(p)

CacheDeletePatent == \E p \in patents : delete_patent(p.kind, p.reg_number)

CacheCreateOwnership ==
    \E p \in patents : create_ownership("t1", p.kind, p.reg_number)

CachedGetPatentsStats ==
    \E filter_id \in Optional(FilterIds) : cached_get_patents_stats(filter_id)

Expire == \E e \in cache : expire(e)

Tick == tick

NextCache ==
    \/ CacheCreatePatent
    \/ CacheDeletePatent
    \/ CacheCreateOwnership
    \/ CachedGetPatentsStats
    \/ Expire
    \/ Tick

SpecCache == InitCache /\ [][NextCache]_vars

-----------------------------------------------------------------------------
(* Properties *)

IsStats == resp.op = "get_stats"

IsList == resp.op = "list_patents"

\* C1: get_stats on a store or filter that selects zero patents (total_patents = 0
\* or total_ru_patents = 0) returns normally, with the percentage whose
\* denominator is zero equal to 0, and never raises.
C1_ZeroDenominatorGivesZero ==
    (IsStats /\ (total_patents(resp.filter_id) = 0
                    \/ total_ru_patents(resp.filter_id) = 0)) =>
        /\ resp.body.raised = ""
        /\ total_patents(resp.filter_id) = 0 => resp.body.with_holders_percent = 0
        /\ total_ru_patents(resp.filter_id) = 0 => resp.body.ru_with_holders_percent = 0

\* The counts 6, 7, ... of the rows, summed.
TailSum(rows) ==
    LET RECURSIVE upto(_)
        upto(n) == IF n <= 5 THEN 0 ELSE rows[n][2] + upto(n - 1)
    IN  upto(Len(rows))

\* C2: the fold of n rows sorted by descending count is the first min(n, 5) rows
\* verbatim and in order, followed by one remainder entry carrying the sum of the
\* counts of rows 6..n exactly when n > 5 and that sum is > 0; so n <= 5 gives no
\* remainder entry and the empty input gives the empty output.
C2_TopFiveAndOthers ==
    resp.op = "get_top_5_and_others" =>
        LET n == Len(all_data)
            out == resp.body
            k == IF n < 5 THEN n ELSE 5
            rest == n > 5 /\ TailSum(all_data) > 0
        IN  /\ Len(out) = k + (IF rest THEN 1 ELSE 0)
            /\ \A i \in 1..k :
                   out[i] = [name |-> all_data[i][1], count |-> all_data[i][2]]
            /\ rest => out[k + 1] = [name |-> OthersName, count |-> TailSum(all_data)]
            /\ n <= 5 => Len(out) = n
            /\ n = 0 => out = <<>>

\* C2 witness: more than five rows were folded and the remainder entry was emitted.
C2_Witness ==
    /\ resp.op = "get_top_5_and_others"
    /\ Len(all_data) = 7
    /\ Len(resp.body) = 6
    /\ resp.body[6].count = 2

\* C3: with a filter id, the total_patents get_stats returns is at most the
\* total_patents it returns without a filter on the same store.
C3_FilteredNarrowing ==
    (IsStats /\ resp.filter_id # {} /\ resp.body.raised = "") =>
        /\ get_stats({}).raised = ""
        /\ resp.body.total_patents <= get_stats({}).total_patents

\* C4: a listing returns at most pagesize items, and its total is the total of
\* every other page of the same listing on the same store.
C4_PageSizeAndTotal ==
    IsList =>
        /\ Len(resp.body.items) <= resp.pagesize
        /\ \A page \in 1..MaxPage :
               \A other \in list_patents_bodies(page, resp.pagesize, resp.filter_id,
                                                resp.kind, resp.actual) :
                   other.total = resp.body.total

\* C4 witness: a listing whose page is full while more rows match than fit on it.
C4_Witness ==
    /\ IsList
    /\ Len(resp.body.items) = resp.pagesize
    /\ resp.body.total > resp.pagesize
    /\ resp.page = 2

\* C5: a listing repeated with the same arguments on an unchanged store returns
\* the same total and the same items in the same order.
C5_RepeatedListingIsEqual ==
    [][(/\ IsList
        /\ resp'.op = "list_patents"
        /\ resp'.page = resp.page
        /\ resp'.pagesize = resp.pagesize
        /\ resp'.filter_id = resp.filter_id
        /\ resp'.kind = resp.kind
        /\ resp'.actual = resp.actual
        /\ UNCHANGED <<patents, persons, ownerships, filters>>)
       => resp'.body = resp.body]_vars

\* C6: the total of a filtered listing is the number of distinct patents with at
\* least one owner whose tax number is in the filter's set.
C6_FilteredTotalCountsPatents ==
    (IsList /\ Truthy(resp.filter_id)) =>
        resp.body.total =
            Cardinality({p \in patents :
                \E o \in ownerships, fr \in filters :
                    /\ o.patent_kind = p.kind
                    /\ o.patent_reg_number = p.reg_number
                    /\ fr.filter_id \in resp.filter_id
                    /\ fr.tax_number = o.person_tax_number})

\* C7: the total of an unfiltered listing is the number of patents that satisfy
\* the kind and actual predicates it was called with.
C7_UnfilteredTotalCountsMatching ==
    (IsList /\ ~Truthy(resp.filter_id)) =>
        resp.body.total =
            Cardinality({p \in patents :
                /\ resp.kind # {} => p.kind \in resp.kind
                /\ resp.actual # {} => p.actual \in resp.actual})

\* C8: the step that deletes a person leaves no ownership row with that person's
\* tax number, and the step that deletes a patent leaves no ownership row with
\* that patent's key.
C8_CascadeDelete ==
    [][/\ \A q \in persons :
              (\A x \in persons' : x.tax_number # q.tax_number) =>
                  \A o \in ownerships' : o.person_tax_number # q.tax_number
       /\ \A p \in patents :
              (\A x \in patents' : PatentKey(x) # PatentKey(p)) =>
                  \A o \in ownerships' :
                      <<o.patent_kind, o.patent_reg_number>> # PatentKey(p)]_vars

\* C8 witness: a person who had ownership rows was deleted.
C8_Witness ==
    /\ resp.op = "delete_person"
    /\ resp.cascade # {}
    /\ ~PersonExists(resp.tax_number)

\* C9: every ownership row references a patent and a person that exist.
C9_NoDanglingOwnership ==
    \A o \in ownerships :
        /\ PatentExists(o.patent_kind, o.patent_reg_number)
        /\ PersonExists(o.person_tax_number)

\* C9 witness: a delete removed ownership rows while other ownership rows remain.
C9_Witness ==
    /\ resp.op \in {"delete_person", "delete_patent"}
    /\ resp.cascade # {}
    /\ ownerships # {}

\* The author counts a bucket of by_author_count stands for.
InBucket(label, n) ==
    CASE label = "0" -> n = 0
      [] label = "1" -> n = 1
      [] label = "2-5" -> 2 <= n /\ n <= 5
      [] label = "5+" -> n > 5

\* C10: by_author_count counts every patent (with a filter id, every row of the
\* filtered join) in exactly one of the buckets "0", "1", "2-5", "5+": the one
\* its author_count falls in, 2 to 5 inclusive being "2-5".
C10_AuthorCountBuckets ==
    (IsStats /\ resp.body.raised = "") =>
        LET counts == resp.body.by_author_count
            count(label) == IF label \in DOMAIN counts THEN counts[label] ELSE 0
        IN  /\ DOMAIN counts \subseteq {"0", "1", "2-5", "5+"}
            /\ \A label \in {"0", "1", "2-5", "5+"} :
                   count(label) =
                       Cardinality({row \in StatRows(patents, resp.filter_id) :
                                       InBucket(label, row[1].author_count)})
            /\ resp.filter_id = {} =>
                   count("0") + count("1") + count("2-5") + count("5+")
                       = Cardinality(patents)

\* C10 witness: statistics over a patent with 5 authors and a patent with 6.
C10_Witness ==
    /\ IsStats
    /\ resp.body.raised = ""
    /\ resp.filter_id = {}
    /\ \E p \in patents : p.author_count = 5
    /\ \E p \in patents : p.author_count = 6
    /\ resp.body.by_author_count = [label \in {"2-5", "5+"} |-> 1]

\* The owners of the patent with key number i of ScenarioKeys.
OwnersOf(i) ==
    {o \in ownerships : <<o.patent_kind, o.patent_reg_number>> = ScenarioKeys[i]}

\* The store of the scenario: P1 (RU, 2 authors, one owner), P2 (RU, no author,
\* no owner), P3 (not RU, 6 authors, one owner).
IsScenario ==
    /\ patents = ThreePatents(<<"RU", "RU", "US">>, <<2, 0, 6>>)
    /\ Cardinality(OwnersOf(1)) = 1
    /\ OwnersOf(2) = {}
    /\ Cardinality(OwnersOf(3)) = 1

\* C11: on the store of the scenario, get_stats without a filter returns
\* total_patents = 3, total_ru_patents = 2, total_with_holders = 2,
\* total_ru_with_holders = 1, with_holders_percent = 67,
\* ru_with_holders_percent = 50 and by_author_count = {"0": 1, "2-5": 1, "5+": 1}.
C11_Scenario ==
    (IsStats /\ resp.filter_id = {} /\ IsScenario) =>
        /\ resp.body.raised = ""
        /\ resp.body.total_patents = 3
        /\ resp.body.total_ru_patents = 2
        /\ resp.body.total_with_holders = 2
        /\ resp.body.total_ru_with_holders = 1
        /\ resp.body.with_holders_percent = 67
        /\ resp.body.ru_with_holders_percent = 50
        /\ resp.body.by_author_count = [label \in {"0", "2-5", "5+"} |-> 1]

\* C11 witness: get_stats without a filter was called on the store of the scenario.
C11_Witness ==
    /\ IsStats
    /\ resp.filter_id = {}
    /\ IsScenario
    /\ resp.body.raised = ""

\* The patents of P that have an owner, with a filter id an owner whose tax
\* number is in the filter's set.
WithHolder(P, filter_id) ==
    {p \in P :
        \E o \in ownerships :
            /\ o.patent_kind = p.kind
            /\ o.patent_reg_number = p.reg_number
            /\ filter_id # {} =>
                   \E fr \in filters :
                       fr.filter_id \in filter_id /\ fr.tax_number = o.person_tax_number}

\* C12: total_with_holders and total_ru_with_holders count each patent (each RU
\* patent) once when it has at least one owner, with a filter id at least one
\* owner whose tax number is in the filter's set, and not at all otherwise.
C12_WithHoldersCountsDistinctPatents ==
    (IsStats /\ resp.body.raised = "") =>
        /\ resp.body.total_with_holders =
               Cardinality(WithHolder(patents, resp.filter_id))
        /\ resp.body.total_ru_with_holders =
               Cardinality(WithHolder(RuPatents, resp.filter_id))

\* C12 witness: filtered statistics over an RU patent with two owners, one of
\* them in the filter's set, and a patent whose only owner is outside it.
C12_Witness ==
    /\ IsStats
    /\ resp.filter_id = {4}
    /\ resp.body.raised = ""
    /\ tax_numbers(4) = {"t1"}
    /\ \E p \in RuPatents :
           {o.person_tax_number : o \in {x \in ownerships :
               <<x.patent_kind, x.patent_reg_number>> = PatentKey(p)}} = {"t1", "t2"}
    /\ \E p \in patents :
           {o.person_tax_number : o \in {x \in ownerships :
               <<x.patent_kind, x.patent_reg_number>> = PatentKey(p)}} = {"t2"}
    /\ resp.body.total_with_holders = 1
    /\ resp.body.total_ru_with_holders = 1

IsMskStats == resp.op = "get_msk_stats"

\* C13: get_msk_stats on a store where the selected Moscow subset is empty
\* returns normally with moscow_cluster_percentage = 0 and
\* moscow_support_type_percentage = 0.
C13_EmptyMoscowSubsetGivesZero ==
    (IsMskStats /\ PersonRows(MoscowPersons, resp.filter_id) = {}) =>
        /\ resp.body.raised = ""
        /\ resp.body.moscow_cluster_percentage = 0
        /\ resp.body.moscow_support_type_percentage = 0

\* The Moscow persons whose tax number is in the set of the filter.
FilteredMoscowPersons(filter_id) ==
    {q \in MoscowPersons :
        \E fr \in filters : fr.filter_id \in filter_id /\ fr.tax_number = q.tax_number}

\* C14: with a filter id, every field get_msk_stats returns is computed over
\* the Moscow persons whose tax number is in the filter's set: total_persons,
\* by_kind, by_category, the share of cluster members and the share of persons
\* with a support type (0 when that set is empty).
C14_MskStatsFilteredNarrowing ==
    (IsMskStats /\ resp.filter_id # {} /\ resp.body.raised = "") =>
        LET sel == FilteredMoscowPersons(resp.filter_id)
            n == Cardinality(sel)
        IN  /\ resp.body.total_persons = n
            /\ resp.body.by_kind = by_kind({<<q>> : q \in sel})
            /\ resp.body.by_category = by_category({<<q>> : q \in sel})
            /\ resp.body.moscow_cluster_percentage =
                   IF n = 0 THEN 0
                   ELSE round2_percent(Cardinality({q \in sel : q.uk = 1}), n)
            /\ resp.body.moscow_support_type_percentage =
                   IF n = 0 THEN 0
                   ELSE round2_percent(
                            Cardinality({q \in sel : q.support_type # {}}), n)

\* The filter id of the last call is given and has no row.
FilterHasNoRows ==
    /\ resp.filter_id # {}
    /\ \A fr \in filters : fr.filter_id \notin resp.filter_id

\* C15: with a filter id that has no row, a listing with a valid window
\* returns total = 0 and no items, and get_all_stats returns total_persons = 0
\* with empty by_kind and by_category; neither raises.
C15_FilterWithoutRowsIsEmptySet ==
    /\ (IsList /\ resp.page >= 1 /\ resp.pagesize >= 1 /\ FilterHasNoRows) =>
           /\ resp.body.raised = ""
           /\ resp.body.total = 0
           /\ resp.body.items = <<>>
    /\ (resp.op = "get_all_stats" /\ FilterHasNoRows) =>
           /\ resp.body.raised = ""
           /\ resp.body.total_persons = 0
           /\ DOMAIN resp.body.by_kind = {}
           /\ DOMAIN resp.body.by_category = {}

\* C16: a listing called with page <= 0 or pagesize <= 0 is rejected as a
\* validation error, before the handler sends any statement to the store.
C16_InvalidWindowRejected ==
    (IsList /\ (resp.page <= 0 \/ resp.pagesize <= 0)) =>
        resp.body.raised = "RequestValidationError"

\* The last call asked for a patent or a person that does not exist.
MissingEntity ==
    \/ resp.op = "get_patent" /\ ~PatentExists(resp.kind, resp.reg_number)
    \/ resp.op = "get_person" /\ ~PersonExists(resp.tax_number)

\* C17: asking for a patent or a person that does not exist is answered with
\* "not found" (404), and not with the response of an internal error.
C17_MissingEntityIsNotFound ==
    MissingEntity =>
        /\ resp.response.status_code = 404
        /\ resp.response.type # "internal_server_error"

ReadOps ==
    {"list_patents", "get_stats", "get_all_stats", "get_msk_stats", "get_patents_stats"}

\* C20: a step of list_patents, get_stats, get_all_stats, get_msk_stats or
\* get_patents_stats leaves the patent, person, ownership and filter rows as
\* they were, whether the call returns or raises.
C20_ReadsLeaveStoreUnchanged ==
    [][resp'.op \in ReadOps => UNCHANGED <<patents, persons, ownerships, filters>>]_vars

\* C20 witness: a read raised on a store that holds rows of all four tables.
C20_Witness ==
    /\ resp.op \in ReadOps
    /\ resp.body.raised # ""
    /\ patents # {}
    /\ persons # {}
    /\ ownerships # {}
    /\ filters # {}

\* The sum of the counts of a dict of counts.
SumOf(counts) ==
    LET RECURSIVE sum(_)
        sum(K) == IF K = {} THEN 0
                  ELSE LET k == CHOOSE x \in K : TRUE
                       IN  counts[k] + sum(K \ {k})
    IN  sum(DOMAIN counts)

\* C18: the record get_stats returns while other requests insert and delete
\* patents and ownership rows between its statements is the record of one
\* store state; in particular total_with_holders <= total_patents,
\* total_ru_patents <= total_patents and the counts of by_patent_kind sum to
\* total_patents.
C18_StatsRecordIsOfOneSnapshot ==
    (IsStats /\ resp.body.raised = "") =>
        /\ resp.body.total_with_holders <= resp.body.total_patents
        /\ resp.body.total_ru_patents <= resp.body.total_patents
        /\ SumOf(resp.body.by_patent_kind) = resp.body.total_patents

\* The patents with at least one owner whose tax number is in the set of the
\* filter.
OwnedInFilter(filter_id) ==
    {p \in patents :
        \E o \in ownerships, fr \in filters :
            /\ o.patent_kind = p.kind
            /\ o.patent_reg_number = p.reg_number
            /\ fr.filter_id \in filter_id
            /\ fr.tax_number = o.person_tax_number}

\* C21: a listing called with a filter id and a kind or an actual value returns
\* only patents of that kind and actual value that have an owner in the
\* filter's set, and its total is the number of such patents.
C21_FilterWithKindAndActual ==
    (IsList /\ Truthy(resp.filter_id) /\ (resp.kind # {} \/ resp.actual # {})) =>
        LET wanted == {p \in OwnedInFilter(resp.filter_id) :
                          /\ resp.kind # {} => p.kind \in resp.kind
                          /\ resp.actual # {} => p.actual \in resp.actual}
        IN  /\ \A i \in 1..Len(resp.body.items) :
                   \E p \in wanted : resp.body.items[i] = Item(p)
            /\ resp.body.total = Cardinality(wanted)

\* The patents a listing with the arguments of the last call selects.
ListedSet ==
    IF Truthy(resp.filter_id)
    THEN UNION {FilteredMatching(f) : f \in resp.filter_id}
    ELSE Matching(resp.kind, resp.actual)

\* C23: the items of a page are the window at offset (page - 1) * pagesize of
\* a sequence of the listed patents in which every patent in force comes
\* before every patent not in force, in a filtered and in an unfiltered listing.
C23_ActualFirstWindows ==
    IsList =>
        \E s \in Perms(ListedSet) :
            /\ ActualDesc(s)
            /\ resp.body.items =
                   Items(Window(s, (resp.page - 1) * resp.pagesize, resp.pagesize))

\* The patent keys of the items of a listing body.
ItemKeys(body) ==
    {<<body.items[i].kind, body.items[i].reg_number>> : i \in 1..Len(body.items)}

\* C24: with a filter id, every item of a page is a patent with an owner in the
\* filter's set, no patent is twice on a page, and two different pages of the
\* same listing of an unchanged store share no patent.
C24_FilteredMembership ==
    [][(resp'.op = "list_patents" /\ Truthy(resp'.filter_id)) =>
          /\ ItemKeys(resp'.body) \subseteq
                 {PatentKey(p) : p \in OwnedInFilter(resp'.filter_id)}
          /\ Cardinality(ItemKeys(resp'.body)) = Len(resp'.body.items)
          /\ (/\ IsList
              /\ resp.filter_id = resp'.filter_id
              /\ resp.kind = resp'.kind
              /\ resp.actual = resp'.actual
              /\ resp.pagesize = resp'.pagesize
              /\ resp.page # resp'.page) =>
                 ItemKeys(resp.body) \cap ItemKeys(resp'.body) = {}]_vars

\* The (tax_number, full_name) pairs of the persons that own the patent with
\* key (k, r).
HoldersOfKey(k, r) ==
    {[tax_number |-> x.tax_number, full_name |-> x.full_name] :
        x \in {q \in persons :
                  \E o \in ownerships :
                      /\ o.patent_kind = k
                      /\ o.patent_reg_number = r
                      /\ o.person_tax_number = q.tax_number}}

\* The patents an unfiltered listing with the arguments of the last call is
\* about.
WantedUnfiltered ==
    {p \in patents :
        /\ resp.kind # {} => p.kind \in resp.kind
        /\ resp.actual # {} => p.actual \in resp.actual}

IsUnfilteredList == IsList /\ ~Truthy(resp.filter_id) /\ resp.body.raised = ""

\* C22: in the unfiltered listing every matching patent is one row whatever the
\* number of its owners: a page holds as many items as its window of the
\* matching patents has places, no patent twice, each item a matching patent
\* with all its holders, and a patent without owners is there with no holder.
C22_OneRowPerPatentWithAllHolders ==
    IsUnfilteredList =>
        LET items == resp.body.items
            skip  == (resp.page - 1) * resp.pagesize
            n     == Cardinality(WantedUnfiltered)
            left  == IF n > skip THEN n - skip ELSE 0
        IN  /\ Len(items) = IF left < resp.pagesize THEN left ELSE resp.pagesize
            /\ Cardinality(ItemKeys(resp.body)) = Len(items)
            /\ \A i \in 1..Len(items) :
                   /\ \E p \in WantedUnfiltered :
                          PatentKey(p) = <<items[i].kind, items[i].reg_number>>
                   /\ items[i].patent_holders =
                          HoldersOfKey(items[i].kind, items[i].reg_number)

\* A page with a patent of two holders and a patent of none.
C22_Witness ==
    /\ IsUnfilteredList
    /\ \E i, j \in 1..Len(resp.body.items) :
           /\ Cardinality(resp.body.items[i].patent_holders) = 2
           /\ resp.body.items[j].patent_holders = {}
           /\ HoldersOfKey(resp.body.items[j].kind, resp.body.items[j].reg_number) = {}

\* The patents of kind invention (1) or utility model (2) of one
\* classification subcategory.
InventionsOf(g) == {p \in patents : p.kind \in {1, 2} /\ p.subcategory = g}

\* C25: mpk_stats has one entry for each subcategory of a patent of kind 1 or
\* 2, counting each such patent once whatever the number of its owners, in
\* descending order of the counts; patents of kind 3 count nowhere. (With at
\* most five subcategories the fold adds no entry of the others.)
C25_MpkCountsPatentsOfKind1And2 ==
    resp.op = "get_patents_stats" =>
        LET mpk  == resp.body.mpk_stats
            subs == {p.subcategory : p \in {q \in patents : q.kind \in {1, 2}}}
        IN  /\ Len(mpk) = Cardinality(subs)
            /\ \A g \in subs :
                   \E i \in 1..Len(mpk) :
                       mpk[i] = [name |-> g, count |-> Cardinality(InventionsOf(g))]
            /\ \A i, j \in 1..Len(mpk) : i < j => mpk[i].count >= mpk[j].count

IsStatsRecord == IsStats /\ resp.body.raised = ""

\* C26: in a statistics record read from one store state, with or without a
\* filter id, the counts of by_patent_kind add up to total_patents and the
\* counts of by_author_count add up to total_patents.
C26_BreakdownsSumToTotal ==
    IsStatsRecord =>
        /\ SumOf(resp.body.by_patent_kind) = resp.body.total_patents
        /\ SumOf(resp.body.by_author_count) = resp.body.total_patents

\* A filtered record whose total counts a patent once for each of its two
\* owners in the filter's set, with two kinds and two author count groups.
C26_Witness ==
    /\ IsStatsRecord
    /\ resp.filter_id # {}
    /\ resp.body.total_patents > resp.body.total_with_holders
    /\ Cardinality(DOMAIN resp.body.by_patent_kind) >= 2
    /\ Cardinality(DOMAIN resp.body.by_author_count) >= 2

\* C27: in a statistics record (the denominators are not zero) read from one
\* store state, total_with_holders <= total_patents and total_ru_with_holders
\* <= total_ru_patents, and both percentages are in 0..100.
C27_PercentagesInRange ==
    IsStatsRecord =>
        /\ resp.body.total_with_holders <= resp.body.total_patents
        /\ resp.body.total_ru_with_holders <= resp.body.total_ru_patents
        /\ resp.body.with_holders_percent \in 0..100
        /\ resp.body.ru_with_holders_percent \in 0..100

\* An unfiltered record with a patent of two owners and percentages inside the
\* range, and every Russian patent with a holder.
C27_Witness ==
    /\ IsStatsRecord
    /\ resp.filter_id = {}
    /\ \E p \in patents : Cardinality(HoldersOfKey(p.kind, p.reg_number)) = 2
    /\ resp.body.with_holders_percent \in 1..99
    /\ resp.body.ru_with_holders_percent = 100

IsCachedStats == resp.op = "GET /patents/stats"

====
